---- MODULE Spec2Model ----
(***************************************************************************)
(* A model of blackbird-cc (src/src/lib.rs): one run of generate, that is  *)
(* the parse of a C++ header, the recursive walk of its declaration tree   *)
(* by State::process_entity, the rendering of the binding items, and the   *)
(* writing of bindings.rs and glue.cc followed by the compilation of the   *)
(* glue.                                                                   *)
(*                                                                         *)
(* Strings that the code slices or builds character by character (mangled  *)
(* names, link symbols, comments) are sequences of one-character strings;  *)
(* other names are plain strings.  An Option is a sequence of length 0     *)
(* (None) or 1 (Some).                                                     *)
(***************************************************************************)
EXTENDS Integers, Sequences, FiniteSets, TLC

\* ------------------------------------------------------------------ bounds

\* Entities below the translation unit in a header of the wide family
\* (namespaces, functions and classes at every nesting, one plain signature).
MaxEntities == 3

\* Members of the class in a header of the class family (one class, its
\* fields, constructors, destructor and methods, one plain signature).
MaxMembers == 3

\* Entities below the translation unit in a header of the deep family
\* (every signature of Sigs, every type of the pool).
MaxSigEntities == 2

\* Number of distinct values random::<u64>() can return in the model.
RandCount == 2

\* ------------------------------------------------------------------- types

Ty(kind, const, disp, inner) ==
  [kind |-> kind, const |-> const, disp |-> disp, inner |-> inner]

TInt == Ty("Int", FALSE, "int", <<>>)
TConstInt == Ty("Int", TRUE, "const int", <<>>)
TDouble == Ty("Double", FALSE, "double", <<>>)
TVoid == Ty("Void", FALSE, "void", <<>>)
TPtrInt == Ty("Pointer", FALSE, "int *", <<TInt>>)
TPtrConstInt == Ty("Pointer", FALSE, "const int *", <<TConstInt>>)
TMyInt == Ty("Typedef", FALSE, "my_int", <<TInt>>)
TRecord == Ty("Record", FALSE, "Foo", <<>>)
TPtrRecord == Ty("Pointer", FALSE, "Foo *", <<TRecord>>)
TRef == Ty("LValueReference", FALSE, "int &", <<TInt>>)

\* Type::get_canonical_type: typedef layers resolved.
RECURSIVE get_canonical_type(_)
get_canonical_type(t) ==
  IF t.kind = "Typedef"
    THEN LET u == get_canonical_type(t.inner[1])
         IN  [u EXCEPT !.const = u.const \/ t.const]
    ELSE t

\* The scalar arms of the match in to_token_stream.
ScalarToken(kind) ==
  CASE kind = "Void" -> "c_void"
    [] kind = "CharS" -> "c_char"
    [] kind = "CharU" -> "c_char"
    [] kind = "SChar" -> "c_schar"
    [] kind = "UChar" -> "c_uchar"
    [] kind = "Short" -> "c_short"
    [] kind = "UShort" -> "c_ushort"
    [] kind = "Int" -> "c_int"
    [] kind = "UInt" -> "c_uint"
    [] kind = "Long" -> "c_long"
    [] kind = "ULong" -> "c_ulong"
    [] kind = "LongLong" -> "c_longlong"
    [] kind = "ULongLong" -> "c_ulonglong"
    [] kind = "Float" -> "c_float"
    [] kind = "Double" -> "c_double"
    [] OTHER -> "invalid"

ScalarKinds ==
  {"Void", "CharS", "CharU", "SChar", "UChar", "Short", "UShort", "Int", "UInt",
   "Long", "ULong", "LongLong", "ULongLong", "Float", "Double"}

\* A slip in the last arm of the match: an unknown kind mapped to the
\* opaque void type instead of a panic.
InvalidType_Opaque(root) == [ok |-> TRUE, toks |-> <<"c_void">>]

\* The `_ => panic!("invalid type: ...")` arm: no token stream is produced.
InvalidType(root) == [ok |-> FALSE, toks |-> <<root.disp>>]

\* <Type as ToTokenStream>::to_token_stream.  ok = FALSE is the panic.
RECURSIVE to_token_stream(_)
to_token_stream(t) ==
  LET root == get_canonical_type(t)
  IN  IF root.kind = "Pointer"
        THEN LET pointee == root.inner[1]
                 tokens == to_token_stream(pointee)
             IN  IF ~tokens.ok THEN tokens
                 ELSE IF pointee.const
                   THEN [ok |-> TRUE, toks |-> <<"*const">> \o tokens.toks]
                   ELSE [ok |-> TRUE, toks |-> <<"*mut">> \o tokens.toks]
        ELSE IF root.kind \in ScalarKinds
          THEN [ok |-> TRUE, toks |-> <<ScalarToken(root.kind)>>]
          ELSE InvalidType(root)

\* ---------------------------------------------------------------- entities

Digit(i) == <<"0", "1", "2", "3", "4", "5", "6", "7", "8", "9">>[(i % 10) + 1]

Param(name, ty) == [name |-> name, ty |-> ty]

\* An entity of the parsed tree: what the clang crate reports for it.
Entity(kind, parent, inline, static, public, ty, args) ==
  [kind |-> kind, parent |-> parent, inline |-> inline, static |-> static,
   public |-> public, ty |-> ty, args |-> args]

\* Kinds that hold namespace-level declarations, and the kinds found there.
ScopeKinds == {"TranslationUnit", "Namespace"}

PlainArgs == <<Param(<<"x">>, TInt)>>

\* Signatures of the deep family: result type and parameters.
Sigs ==
  { [ret |-> TInt, args |-> <<>>],
    [ret |-> TMyInt, args |-> <<Param(<<"a">>, TDouble), Param(<<"b">>, TInt)>>],
    [ret |-> TPtrConstInt, args |-> <<Param(<<"p">>, TPtrInt), Param(<<>>, TInt)>>],
    [ret |-> TRecord, args |-> <<>>],
    [ret |-> TVoid, args |-> <<Param(<<"r">>, TPtrRecord)>>] }

FieldTypes == {TPtrConstInt, TMyInt, TRef, TPtrRecord}

\* Declarations met directly in a translation unit or a namespace.
ScopeDecls(p, family) ==
  {Entity("Namespace", p, FALSE, FALSE, FALSE, TVoid, <<>>),
   Entity("ClassDecl", p, FALSE, FALSE, FALSE, TVoid, <<>>)}
  \cup (IF family = "sigs"
          THEN {Entity("FunctionDecl", p, i, FALSE, FALSE, s.ret, s.args) :
                  i \in BOOLEAN, s \in Sigs}
          ELSE {Entity("FunctionDecl", p, i, FALSE, FALSE, TInt, PlainArgs) :
                  i \in BOOLEAN}
               \cup {Entity("VarDecl", p, FALSE, FALSE, FALSE, TInt, <<>>)})

\* Declarations met directly in a class: its static members in the scopes
\* family, its instance members in the class family, members of every
\* signature in the sigs family.  A class has at most one destructor.
MemberDecls(p, family, hasDtor) ==
  CASE family = "sigs" ->
         {Entity("FieldDecl", p, FALSE, FALSE, TRUE, t, <<>>) : t \in FieldTypes}
         \cup {Entity("Constructor", p, FALSE, FALSE, TRUE, TVoid, s.args) : s \in Sigs}
         \cup {Entity("Method", p, FALSE, st, TRUE, s.ret, s.args) :
                 st \in BOOLEAN, s \in Sigs}
    [] family = "scopes" ->
         {Entity("Method", p, FALSE, TRUE, TRUE, TInt, PlainArgs),
          Entity("VarDecl", p, FALSE, FALSE, FALSE, TInt, <<>>)}
    [] family = "class" ->
         {Entity("FieldDecl", p, FALSE, FALSE, pub, TInt, <<>>) : pub \in BOOLEAN}
         \cup {Entity("Constructor", p, FALSE, FALSE, TRUE, TVoid, PlainArgs),
               Entity("Method", p, FALSE, FALSE, TRUE, TInt, PlainArgs)}
         \cup (IF hasDtor THEN {}
               ELSE {Entity("Destructor", p, FALSE, FALSE, TRUE, TVoid, <<>>)})

KindOf(t, i) == IF i = 0 THEN "TranslationUnit" ELSE t[i].kind

\* The entities that can follow the entities of t in a well-formed tree:
\* namespace-level declarations in a scope, members in a class.
Extensions(t, family) ==
  UNION { IF KindOf(t, p) \in ScopeKinds THEN ScopeDecls(p, family)
          ELSE IF KindOf(t, p) = "ClassDecl"
            THEN MemberDecls(p, family,
                   \E j \in 1..Len(t) : t[j].parent = p /\ t[j].kind = "Destructor")
            ELSE {}
          : p \in 0..Len(t) }

RECURSIVE Trees(_, _)
Trees(n, family) ==
  IF n = 0 THEN {<<>>}
  ELSE UNION { {Append(t, e) : e \in Extensions(t, family)} :
               t \in Trees(n - 1, family) }

\* One class at the top level with n instance members.
RECURSIVE ClassTrees(_)
ClassTrees(n) ==
  IF n = 0 THEN {<<Entity("ClassDecl", 0, FALSE, FALSE, FALSE, TVoid, <<>>)>>}
  ELSE UNION { {Append(t, e) :
                  e \in MemberDecls(1, "class",
                         \E j \in 1..Len(t) : t[j].kind = "Destructor")} :
               t \in ClassTrees(n - 1) }

\* The headers a run is given: trees of plain declarations at every nesting,
\* one class with several instance members, and small trees over every
\* signature.
Headers ==
  Trees(MaxEntities, "scopes") \cup ClassTrees(MaxMembers)
  \cup Trees(MaxSigEntities, "sigs")

VARIABLES
  header,       \* the entities of the parsed tree; entity 0 is the translation unit
  unix,         \* cfg!(unix) of the build
  pc,           \* the place of the run in generate
  failure,      \* why the run panicked ("" while it has not)
  stack,        \* the activations of process_children and of the class loop
  visited,      \* the entities met by the walk, in the order they were met
  glue,         \* State::glue, one forwarding definition per element
  items,        \* the Vec<Item> returned by process_entity
  tokens,       \* the TokenStream built from items
  bindings_rs,  \* OUT_DIR/bindings.rs
  glue_cc       \* OUT_DIR/glue.cc

vars ==
  <<header, unix, pc, failure, stack, visited, glue, items, tokens, bindings_rs,
    glue_cc>>

\* ----------------------------------------------------- facts of an entity

EntityNames == <<"e1", "e2", "e3", "e4", "e5", "e6", "e7", "e8", "e9">>

\* Entity::get_kind.
get_kind(n) == KindOf(header, n)

\* Entity::get_name; a constructor is named after its class.
get_name(n) ==
  IF header[n].kind = "Constructor" THEN EntityNames[header[n].parent]
  ELSE EntityNames[n]

\* Entity::get_children, in declaration order.
IsChildOf(n, j) == header[j].parent = n

get_children(n) ==
  SelectSeq([j \in 1..Len(header) |-> j], LAMBDA j : IsChildOf(n, j))

\* Entity::get_mangled_names: a destructor has a complete-object and a
\* base-object symbol, every other declaration one symbol.
get_mangled_names(n) ==
  IF header[n].kind = "Destructor"
    THEN << <<"_", "_", "Z", "D", "1", Digit(n)>>, <<"_", "_", "Z", "D", "2", Digit(n)>> >>
    ELSE << <<"_", "_", "Z", Digit(n)>> >>

\* Entity::get_mangled_name.
get_mangled_name(n) == get_mangled_names(n)[1]

\* Entity::get_comment: entities with an odd number carry a two-line comment.
get_comment(n) ==
  IF n % 2 = 1 THEN << <<"/", "/", "/", Digit(n), "\n", "/", "/", "/", "b">> >>
  ELSE <<>>

\* str::split("\n").
RECURSIVE split(_)
split(x) ==
  IF \A k \in 1..Len(x) : x[k] # "\n" THEN <<x>>
  ELSE LET k == CHOOSE i \in 1..Len(x) :
                  x[i] = "\n" /\ \A j \in 1..(i - 1) : x[j] # "\n"
       IN  <<SubSeq(x, 1, k - 1)>> \o split(SubSeq(x, k + 1, Len(x)))

\* e.get_comment().map_or(Vec::new(), |x| x.split("\n")...collect()).
Comments(n) == IF get_comment(n) = <<>> THEN <<>> ELSE split(get_comment(n)[1])

\* A slip: the mangled name used as it is on every platform.
Symbol_KeepPrefix(m) == m

\* The link symbol of a declaration with mangled name m:
\* if cfg!(unix) { m[1..] } else { m }.
Symbol(m) == IF unix THEN Tail(m) ELSE m

\* The mangled name a destructor binds against.
DestructorName(n) == get_mangled_names(n)[1]

HexDigit(d) ==
  <<"0", "1", "2", "3", "4", "5", "6", "7", "8", "9", "a", "b", "c", "d", "e", "f">>[d + 1]

\* format!("{:x}", v).
RECURSIVE Hex(_)
Hex(v) == IF v < 16 THEN <<HexDigit(v)>> ELSE Hex(v \div 16) \o <<HexDigit(v % 16)>>

\* The values random::<u64>() returns.
Rand == 0..(RandCount - 1)

\* format!("_{:x}", random::<u64>()).
FreshId(r) == <<"_">> \o Hex(r)

\* format!("a{}", i).
PositionalName(i) == <<"a0", "a1", "a2", "a3">>[i + 1]

\* arg.get_display_name().unwrap_or(format!("a{}", i)).
ArgName(param, i) == IF param.name = <<>> THEN PositionalName(i) ELSE param.name[1]

\* The closure of .iter().enumerate().map(..): Arg(Some(name), type tokens).
MapArg(param, i) ==
  [name |-> <<ArgName(param, i)>>, ty |-> to_token_stream(param.ty)]

\* e.get_arguments().unwrap().iter().enumerate().map(..).collect(); the map
\* panics at the first argument whose type has no token stream.
MapArgs(n) ==
  LET args == header[n].args
      mapped == [k \in 1..Len(args) |-> MapArg(args[k], k - 1)]
  IN  [ok |-> \A k \in 1..Len(args) : mapped[k].ty.ok,
       val |-> [k \in 1..Len(args) |->
                  [name |-> mapped[k].name, ty |-> mapped[k].ty.toks]]]

\* ------------------------------------------------------------------ items

ItemMod(name, its, comments) ==
  [tag |-> "Mod", name |-> name, items |-> its, comments |-> comments]

ItemFn(name, symbol, args, ret, comments) ==
  [tag |-> "Fn", name |-> name, symbol |-> symbol, args |-> args, ret |-> ret,
   comments |-> comments]

\* The ItemStruct a class starts from: no field, method, constructor or
\* destructor yet.
NewStruct(n) ==
  [tag |-> "Struct", name |-> get_name(n), comments |-> Comments(n),
   fields |-> <<>>, methods |-> <<>>, static_methods |-> <<>>,
   constructor |-> <<>>, destructor |-> <<>>]

\* A slip: the forwarding definition named by the mangled name instead of
\* the proxy.
GlueDef_Mangled(n, symbol) ==
  LET args == header[n].args
  IN  [ret |-> header[n].ty.disp, temp |-> get_mangled_name(n), name |-> get_name(n),
       args |-> [k \in 1..Len(args) |-> <<args[k].ty.disp, args[k].name[1]>>],
       arg_names |-> [k \in 1..Len(args) |-> args[k].name[1]]]

\* One forwarding definition of the glue:
\* extern "C" { ret temp(args) { return name(arg_names); } }
GlueDef(n, symbol) ==
  LET args == header[n].args
  IN  [ret |-> header[n].ty.disp, temp |-> symbol, name |-> get_name(n),
       args |-> [k \in 1..Len(args) |-> <<args[k].ty.disp, args[k].name[1]>>],
       arg_names |-> [k \in 1..Len(args) |-> args[k].name[1]]]

\* The FunctionDecl arm of process_entity for entity n when random::<u64>()
\* returns r: the glue after it, the item it returns, or why it panics.
FunctionDecl(n, r) ==
  LET e == header[n]
      symbol == IF e.inline THEN FreshId(r) ELSE Symbol(get_mangled_name(n))
      unnamed == \E k \in 1..Len(e.args) : e.args[k].name = <<>>
      glue1 == IF e.inline /\ ~unnamed THEN Append(glue, GlueDef(n, symbol)) ELSE glue
      ret == to_token_stream(e.ty)
      args == MapArgs(n)
  IN  IF e.inline /\ unnamed
        THEN [fail |-> "MissingDisplayName", glue |-> glue, item |-> <<>>]
      ELSE IF ~ret.ok \/ ~args.ok
        THEN [fail |-> "UnsupportedType", glue |-> glue1, item |-> <<>>]
      ELSE [fail |-> "", glue |-> glue1,
            item |-> <<ItemFn(get_name(n), symbol, args.val, ret.toks, Comments(n))>>]

\* A slip: the field inserted at the front of the list.
FieldDecl_Prepend(strukt, n) ==
  LET ty == to_token_stream(header[n].ty)
  IN  [ok |-> ty.ok,
       strukt |-> [strukt EXCEPT !.fields =
                     << [public |-> header[n].public, name |-> get_name(n),
                         ty |-> ty.toks] >> \o @]]

\* The FieldDecl arm of the class loop: the struct after the push.
FieldDecl(strukt, n) ==
  LET ty == to_token_stream(header[n].ty)
  IN  [ok |-> ty.ok,
       strukt |-> [strukt EXCEPT !.fields =
                     Append(@, [public |-> header[n].public, name |-> get_name(n),
                                ty |-> ty.toks])]]

\* A slip: the constructor kept is the first one declared.
ConstructorDecl_KeepFirst(strukt, n) ==
  LET args == MapArgs(n)
  IN  [ok |-> args.ok,
       strukt |-> IF strukt.constructor # <<>> THEN strukt
                  ELSE [strukt EXCEPT !.constructor =
                          << [name |-> get_name(n),
                              symbol |-> Symbol(get_mangled_name(n)),
                              args |-> args.val, comments |-> Comments(n)] >>]]

\* The Constructor arm: strukt.constructor = Some(Constructor {..}).
ConstructorDecl(strukt, n) ==
  LET args == MapArgs(n)
  IN  [ok |-> args.ok,
       strukt |-> [strukt EXCEPT !.constructor =
                     << [name |-> get_name(n),
                         symbol |-> Symbol(get_mangled_name(n)),
                         args |-> args.val, comments |-> Comments(n)] >>]]

\* The Destructor arm: strukt.destructor = Some(Destructor {..}), named
\* after the class.
DestructorDecl(strukt, class, n) ==
  [strukt EXCEPT !.destructor =
     << [name |-> get_name(class), symbol |-> Symbol(DestructorName(n)),
         comments |-> Comments(n)] >>]

\* The Method arm: a push on static_methods or on methods.
MethodDecl(strukt, class, n) ==
  LET args == MapArgs(n)
      ret == to_token_stream(header[n].ty)
      m == [class |-> get_name(class), name |-> get_name(n),
            symbol |-> Symbol(get_mangled_name(n)), args |-> args.val,
            ret |-> ret.toks, comments |-> Comments(n)]
  IN  [ok |-> args.ok /\ ret.ok,
       strukt |-> IF header[n].static
                    THEN [strukt EXCEPT !.static_methods = Append(@, m)]
                    ELSE [strukt EXCEPT !.methods = Append(@, m)]]

\* ------------------------------------------------------------------- walk

Frame(n, ctx, strukt) ==
  [node |-> n, idx |-> 1, ctx |-> ctx, items |-> <<>>, strukt |-> strukt]

Top == stack[Len(stack)]

\* The loop of the top activation has a child left.
HasNext == pc = "walk" /\ stack # <<>> /\ Top.idx <= Len(get_children(Top.node))

Child == get_children(Top.node)[Top.idx]

\* The top activation is process_children (of the translation unit or of a
\* namespace), or the loop over the children of a class.
InScope == HasNext /\ get_kind(Top.node) \in ScopeKinds
InClass == HasNext /\ get_kind(Top.node) = "ClassDecl"

\* The stack with the top activation's loop moved past the child, and the
\* child's items added to its result.
Advanced(its) ==
  [stack EXCEPT ![Len(stack)] = [@ EXCEPT !.idx = @ + 1, !.items = @ \o its]]

\* The stack with the top activation's struct replaced.
WithStruct(strukt) ==
  [stack EXCEPT ![Len(stack)] = [@ EXCEPT !.idx = @ + 1, !.strukt = <<strukt>>]]

\* An unwrap or panic! ends the process.
Panic(reason) ==
  /\ pc' = "failed"
  /\ failure' = reason

Files == <<bindings_rs, glue_cc>>

\* Clang::new, Index::new and the parse of the header (lines 519-535); on
\* success process_entity is entered on the translation unit.
Parse ==
  /\ pc = "start"
  /\ \/ /\ pc' = "walk"
        /\ stack' = <<Frame(0, <<>>, <<>>)>>
        /\ visited' = <<0>>
        /\ UNCHANGED failure
     \/ /\ Panic("ParseFailure")
        /\ UNCHANGED <<stack, visited>>
  /\ UNCHANGED <<header, unix, glue, items, tokens, Files>>

\* A slip: the namespace walked with a State of its own, its glue empty.
EnterNamespace_FreshGlue ==
  /\ InScope
  /\ get_kind(Child) = "Namespace"
  /\ stack' = Append(Advanced(<<>>),
                     Frame(Child, Append(Top.ctx, get_name(Child)), <<>>))
  /\ visited' = Append(visited, Child)
  /\ glue' = <<>>
  /\ UNCHANGED <<header, unix, pc, failure, items, tokens, Files>>

\* EntityKind::Namespace: the context is cloned, the name pushed on the
\* clone, and process_children entered under it.
EnterNamespace ==
  /\ InScope
  /\ get_kind(Child) = "Namespace"
  /\ stack' = Append(Advanced(<<>>),
                     Frame(Child, Append(Top.ctx, get_name(Child)), <<>>))
  /\ visited' = Append(visited, Child)
  /\ UNCHANGED <<header, unix, pc, failure, glue, items, tokens, Files>>

\* A slip: the namespace's items handed to the caller without the module.
LeaveNamespace_Flatten ==
  /\ pc = "walk" /\ stack # <<>> /\ ~HasNext
  /\ get_kind(Top.node) = "Namespace"
  /\ LET rest == SubSeq(stack, 1, Len(stack) - 1)
     IN  stack' = [rest EXCEPT ![Len(rest)] = [@ EXCEPT !.items = @ \o Top.items]]
  /\ UNCHANGED <<header, unix, pc, failure, visited, glue, items, tokens, Files>>

\* process_children of a namespace returns: the namespace's items are
\* wrapped in one Item::Mod, which the caller's loop extends its items with.
LeaveNamespace ==
  /\ pc = "walk" /\ stack # <<>> /\ ~HasNext
  /\ get_kind(Top.node) = "Namespace"
  /\ LET mod == ItemMod(get_name(Top.node), Top.items, Comments(Top.node))
         rest == SubSeq(stack, 1, Len(stack) - 1)
     IN  stack' = [rest EXCEPT ![Len(rest)] = [@ EXCEPT !.items = Append(@, mod)]]
  /\ UNCHANGED <<header, unix, pc, failure, visited, glue, items, tokens, Files>>

\* EntityKind::FunctionDecl.
VisitFunction ==
  /\ InScope
  /\ get_kind(Child) = "FunctionDecl"
  /\ \E r \in Rand :
       LET out == FunctionDecl(Child, r)
       IN  /\ glue' = out.glue
           /\ IF out.fail = ""
                THEN /\ stack' = Advanced(out.item)
                     /\ UNCHANGED <<pc, failure>>
                ELSE /\ Panic(out.fail)
                     /\ UNCHANGED stack
  /\ visited' = Append(visited, Child)
  /\ UNCHANGED <<header, unix, items, tokens, Files>>

\* `_ => Vec::new()`: any other kind at namespace level yields no item.
VisitOther ==
  /\ InScope
  /\ get_kind(Child) \notin {"Namespace", "FunctionDecl", "ClassDecl"}
  /\ stack' = Advanced(<<>>)
  /\ visited' = Append(visited, Child)
  /\ UNCHANGED <<header, unix, pc, failure, glue, items, tokens, Files>>

\* EntityKind::ClassDecl: the struct is created and the loop over the
\* class's children entered.
EnterClass ==
  /\ InScope
  /\ get_kind(Child) = "ClassDecl"
  /\ stack' = Append(Advanced(<<>>), Frame(Child, Top.ctx, <<NewStruct(Child)>>))
  /\ visited' = Append(visited, Child)
  /\ UNCHANGED <<header, unix, pc, failure, glue, items, tokens, Files>>

\* The arms of the class loop that can panic share this shape.
Member(out) ==
  /\ IF out.ok
       THEN /\ stack' = WithStruct(out.strukt)
            /\ UNCHANGED <<pc, failure>>
       ELSE /\ Panic("UnsupportedType")
            /\ UNCHANGED stack
  /\ visited' = Append(visited, Child)
  /\ UNCHANGED <<header, unix, glue, items, tokens, Files>>

VisitField ==
  /\ InClass
  /\ get_kind(Child) = "FieldDecl"
  /\ Member(FieldDecl(Top.strukt[1], Child))

VisitConstructor ==
  /\ InClass
  /\ get_kind(Child) = "Constructor"
  /\ Member(ConstructorDecl(Top.strukt[1], Child))

VisitDestructor ==
  /\ InClass
  /\ get_kind(Child) = "Destructor"
  /\ Member([ok |-> TRUE, strukt |-> DestructorDecl(Top.strukt[1], Top.node, Child)])

VisitMethod ==
  /\ InClass
  /\ get_kind(Child) = "Method"
  /\ Member(MethodDecl(Top.strukt[1], Top.node, Child))

\* `_ => {}`: any other child of a class is ignored.
VisitIgnored ==
  /\ InClass
  /\ get_kind(Child) \notin {"FieldDecl", "Constructor", "Destructor", "Method"}
  /\ Member([ok |-> TRUE, strukt |-> Top.strukt[1]])

\* The class loop ends: vec![Item::Struct(strukt)] goes to the caller.
LeaveClass ==
  /\ pc = "walk" /\ stack # <<>> /\ ~HasNext
  /\ get_kind(Top.node) = "ClassDecl"
  /\ LET rest == SubSeq(stack, 1, Len(stack) - 1)
     IN  stack' = [rest EXCEPT ![Len(rest)] =
                     [@ EXCEPT !.items = Append(@, Top.strukt[1])]]
  /\ UNCHANGED <<header, unix, pc, failure, visited, glue, items, tokens, Files>>

\* process_entity returns to generate with the items of the translation unit.
LeaveTranslationUnit ==
  /\ pc = "walk" /\ stack # <<>> /\ ~HasNext
  /\ get_kind(Top.node) = "TranslationUnit"
  /\ items' = Top.items
  /\ stack' = <<>>
  /\ pc' = "render"
  /\ UNCHANGED <<header, unix, failure, visited, glue, tokens, Files>>

Walk ==
  \/ EnterNamespace \/ LeaveNamespace \/ VisitFunction \/ VisitOther
  \/ EnterClass \/ VisitField \/ VisitConstructor \/ VisitDestructor
  \/ VisitMethod \/ VisitIgnored \/ LeaveClass \/ LeaveTranslationUnit

\* ----------------------------------------------------------------- render

\* TokenStream::from_str of one comment line.  The comment lines of the
\* model are "///" lines, which lex as a doc attribute over the rest.
from_str(line) == <<"#", "[", "doc", "=">> \o SubSeq(line, 4, Len(line)) \o <<"]">>

RenderComments(comments) == [k \in 1..Len(comments) |-> from_str(comments[k])]

\* <Arg as ToTokens>::to_tokens.
RenderArg(arg) == IF arg.name # <<>> THEN <<arg.name[1], ":">> \o arg.ty ELSE arg.ty

RenderArgs(args) == [k \in 1..Len(args) |-> RenderArg(args[k])]

\* The identifiers of the arguments, x.0.as_ref().unwrap().
ArgIdents(args) == [k \in 1..Len(args) |-> <<args[k].name[1]>>]

\* <Field as ToTokens>::to_tokens.
RenderField(f) == (IF f.public THEN <<"pub">> ELSE <<>>) \o <<f.name, ":">> \o f.ty

\* <ItemFn as ToTokens>::to_tokens.
RenderFn(item) ==
  [tag |-> "extern_fn", comments |-> RenderComments(item.comments),
   link_name |-> item.symbol, name |-> item.name, args |-> RenderArgs(item.args),
   ret |-> item.ret]

ThisArg(class) == [name |-> <<"this">>, ty |-> <<"*mut", class>>]

\* <Constructor as ToTokens>::to_tokens with id = format_ident!("_{:x}", r).
RenderConstructor(c, r) ==
  [link_name |-> c.symbol, id |-> FreshId(r),
   raw_args |-> RenderArgs(<<ThisArg(c.name)>> \o c.args),
   comments |-> RenderComments(c.comments),
   args |-> RenderArgs(c.args),
   arg_names |-> << <<"&mut", "this", "as", "*mut", c.name>> >> \o ArgIdents(c.args)]

\* <Destructor as ToTokens>::to_tokens.
RenderDestructor(d, r) ==
  [link_name |-> d.symbol, id |-> FreshId(r), raw_args |-> << <<"_", ":", "*mut", d.name>> >>,
   comments |-> RenderComments(d.comments)]

\* <Method as ToTokens>::to_tokens.
RenderMethod(m, r) ==
  [link_name |-> m.symbol, id |-> FreshId(r), name |-> m.name, ret |-> m.ret,
   raw_args |-> RenderArgs(<<ThisArg(m.class)>> \o m.args),
   comments |-> RenderComments(m.comments),
   args |-> << <<"&mut", "self">> >> \o RenderArgs(m.args),
   arg_names |-> << <<"self", "as", "*mut", m.class>> >> \o ArgIdents(m.args)]

\* <StaticMethod as ToTokens>::to_tokens.
RenderStaticMethod(m, r) ==
  [link_name |-> m.symbol, id |-> FreshId(r), name |-> m.name, ret |-> m.ret,
   raw_args |-> RenderArgs(m.args),
   comments |-> RenderComments(m.comments),
   args |-> RenderArgs(m.args),
   arg_names |-> ArgIdents(m.args)]

\* <ItemStruct as ToTokens>::to_tokens; rnd gives the value random::<u64>()
\* returns in the to_tokens of the member bound to each symbol.
RenderStruct(item, rnd) ==
  [tag |-> "struct", comments |-> RenderComments(item.comments), name |-> item.name,
   fields |-> [k \in 1..Len(item.fields) |-> RenderField(item.fields[k])],
   constructor |-> [k \in 1..Len(item.constructor) |->
                      RenderConstructor(item.constructor[k], rnd[item.constructor[k].symbol])],
   destructor |-> [k \in 1..Len(item.destructor) |->
                     RenderDestructor(item.destructor[k], rnd[item.destructor[k].symbol])],
   methods |-> [k \in 1..Len(item.methods) |->
                  RenderMethod(item.methods[k], rnd[item.methods[k].symbol])],
   static_methods |-> [k \in 1..Len(item.static_methods) |->
                         RenderStaticMethod(item.static_methods[k],
                                            rnd[item.static_methods[k].symbol])]]

\* <Item as ToTokens>::to_tokens over a Vec<Item>; <ItemMod as ToTokens>
\* nests the tokens of its items in `mod name { .. }`.
RECURSIVE RenderItems(_, _)
RenderItems(its, rnd) ==
  [k \in 1..Len(its) |->
     CASE its[k].tag = "Fn" -> RenderFn(its[k])
       [] its[k].tag = "Struct" -> RenderStruct(its[k], rnd)
       [] its[k].tag = "Mod" ->
            [tag |-> "mod", comments |-> RenderComments(its[k].comments),
             name |-> its[k].name, body |-> RenderItems(its[k].items, rnd)]]

SeqRange(q) == {q[k] : k \in 1..Len(q)}

\* The link symbols of the members whose to_tokens draws an identifier.
RECURSIVE MemberSymbols(_)
MemberSymbols(its) ==
  UNION { CASE its[k].tag = "Fn" -> {}
            [] its[k].tag = "Mod" -> MemberSymbols(its[k].items)
            [] its[k].tag = "Struct" ->
                 {m.symbol : m \in SeqRange(its[k].constructor) \cup
                                   SeqRange(its[k].destructor) \cup
                                   SeqRange(its[k].methods) \cup
                                   SeqRange(its[k].static_methods)}
          : k \in 1..Len(its) }

\* The loop of lines 537-540.
Render ==
  /\ pc = "render"
  /\ \E rnd \in [MemberSymbols(items) -> Rand] : tokens' = RenderItems(items, rnd)
  /\ pc' = "out_dir"
  /\ UNCHANGED <<header, unix, failure, stack, visited, glue, items, Files>>

\* ------------------------------------------------------------------ output

\* std::env::var("OUT_DIR").unwrap() (line 542).
ReadOutDir ==
  /\ pc = "out_dir"
  /\ \/ pc' = "create_bindings" /\ UNCHANGED failure
     \/ Panic("OutDirUnset")
  /\ UNCHANGED <<header, unix, stack, visited, glue, items, tokens, Files>>

\* fs::File::create(out_dir.join("bindings.rs")).unwrap() (line 544): the
\* file is created or truncated.
CreateBindings ==
  /\ pc = "create_bindings"
  /\ \/ /\ bindings_rs' = [status |-> "created", content |-> <<>>]
        /\ pc' = "write_bindings"
        /\ UNCHANGED failure
     \/ /\ Panic("CreateBindings")
        /\ UNCHANGED bindings_rs
  /\ UNCHANGED <<header, unix, stack, visited, glue, items, tokens, glue_cc>>

\* f.write_fmt(format_args!("{}", tokens)).unwrap() (line 545).
WriteBindings ==
  /\ pc = "write_bindings"
  /\ \/ /\ bindings_rs' = [status |-> "written", content |-> tokens]
        /\ pc' = "create_glue"
        /\ UNCHANGED failure
     \/ /\ Panic("WriteBindings")
        /\ bindings_rs' = [status |-> "partial", content |-> <<>>]
  /\ UNCHANGED <<header, unix, stack, visited, glue, items, tokens, glue_cc>>

\* fs::File::create(out_dir.join("glue.cc")).unwrap() (line 547).
CreateGlue ==
  /\ pc = "create_glue"
  /\ \/ /\ glue_cc' = [status |-> "created", content |-> <<>>]
        /\ pc' = "write_include"
        /\ UNCHANGED failure
     \/ /\ Panic("CreateGlue")
        /\ UNCHANGED glue_cc
  /\ UNCHANGED <<header, unix, stack, visited, glue, items, tokens, bindings_rs>>

\* The path given to generate.
HeaderPath == <<"d", "\\", "a", ".", "h">>

\* str::replace("\\", "\\\\").
RECURSIVE EscapeBackslashes(_)
EscapeBackslashes(x) ==
  IF x = <<>> THEN <<>>
  ELSE (IF Head(x) = "\\" THEN <<"\\", "\\">> ELSE <<Head(x)>>)
       \o EscapeBackslashes(Tail(x))

\* format_args!("#include \"{}\"\n", ..).
IncludeLine == <<"#include", "\"">> \o EscapeBackslashes(HeaderPath) \o <<"\"", "\n">>

\* The first write_fmt on glue.cc (line 548).
WriteInclude ==
  /\ pc = "write_include"
  /\ \/ /\ glue_cc' = [status |-> "include", content |-> <<IncludeLine>>]
        /\ pc' = "write_glue"
        /\ UNCHANGED failure
     \/ /\ Panic("WriteGlue")
        /\ glue_cc' = [status |-> "partial", content |-> <<>>]
  /\ UNCHANGED <<header, unix, stack, visited, glue, items, tokens, bindings_rs>>

\* The second write_fmt on glue.cc and the drop of the file (lines 549-550).
WriteGlue ==
  /\ pc = "write_glue"
  /\ \/ /\ glue_cc' = [status |-> "written", content |-> glue_cc.content \o glue]
        /\ pc' = "compile"
        /\ UNCHANGED failure
     \/ /\ Panic("WriteGlue")
        /\ glue_cc' = [status |-> "partial", content |-> glue_cc.content]
  /\ UNCHANGED <<header, unix, stack, visited, glue, items, tokens, bindings_rs>>

\* cc::Build::new().file(..).compile("glue") (lines 552-554): compile
\* panics when the compiler fails.
Compile ==
  /\ pc = "compile"
  /\ \/ pc' = "done" /\ UNCHANGED failure
     \/ Panic("ToolchainFailure")
  /\ UNCHANGED <<header, unix, stack, visited, glue, items, tokens, Files>>

\* Files left by an earlier run, or no files: nothing of this run.
StaleFile == [status |-> "stale", content |-> <<>>]

Init ==
  /\ header \in Headers
  /\ unix \in BOOLEAN
  /\ pc = "start"
  /\ failure = ""
  /\ stack = <<>>
  /\ visited = <<>>
  /\ glue = <<>>
  /\ items = <<>>
  /\ tokens = <<>>
  /\ bindings_rs = StaleFile
  /\ glue_cc = StaleFile

Output ==
  \/ Render \/ ReadOutDir \/ CreateBindings \/ WriteBindings \/ CreateGlue
  \/ WriteInclude \/ WriteGlue \/ Compile

Next == Parse \/ Walk \/ Output

Spec == Init /\ [][Next]_vars

\* ----------------------------------------------------------------- claims

\* The items of a Vec<Item>, those nested in modules included.
RECURSIVE Flatten(_)
Flatten(its) ==
  UNION { {its[k]} \cup (IF its[k].tag = "Mod" THEN Flatten(its[k].items) ELSE {})
          : k \in 1..Len(its) }

\* Every item built so far: returned to generate, or held by an activation
\* of the walk.
AllItems == Flatten(items) \cup UNION {Flatten(stack[k].items) : k \in 1..Len(stack)}

AllStructs == {it \in AllItems : it.tag = "Struct"}

\* The entities of the model carry pairwise distinct names, so an item names
\* the declaration it was built from.
Declared(name, kind) ==
  CHOOSE n \in 1..Len(header) : header[n].kind = kind /\ EntityNames[n] = name

\* The children of n of the kinds in ks, in declaration order.
RECURSIVE Select(_, _)
Select(kids, ks) ==
  IF kids = <<>> THEN <<>>
  ELSE (IF header[Head(kids)].kind \in ks THEN <<Head(kids)>> ELSE <<>>)
       \o Select(Tail(kids), ks)

ChildrenOfKind(n, ks) == Select(get_children(n), ks)

\* The link symbol the spec gives for mangled name m: one leading character
\* removed on the stripping platform family, m itself elsewhere.
StrippedName(m) == IF unix THEN SubSeq(m, 2, Len(m)) ELSE m

Before(status) == status \in {"start", "walk", "failed"}

C1_SupportedKinds ==
  {"Void", "CharS", "CharU", "SChar", "UChar", "Short", "UShort", "Int", "UInt",
   "Long", "ULong", "LongLong", "ULongLong", "Float", "Double"}

RECURSIVE C1_Supported(_)
C1_Supported(t) ==
  IF t.kind = "Typedef" THEN C1_Supported(t.inner[1])
  ELSE IF t.kind = "Pointer" THEN C1_Supported(t.inner[1])
  ELSE t.kind \in C1_SupportedKinds

\* Entity n is a function, field, constructor or method with a parameter,
\* result or field type that is not supported.
C1_Unsupported(n) ==
  LET e == header[n]
      badArg == \E k \in 1..Len(e.args) : ~C1_Supported(e.args[k].ty)
  IN  CASE e.kind \in {"FunctionDecl", "Method"} -> ~C1_Supported(e.ty) \/ badArg
        [] e.kind = "Constructor" -> badArg
        [] e.kind = "FieldDecl" -> ~C1_Supported(e.ty)
        [] OTHER -> FALSE

\* C1: a header with an unsupported type in a traversed declaration never
\* gets past the walk, a run that panicked on an unsupported type panicked
\* in the walk, and in both cases neither bindings.rs nor glue.cc has been
\* created or written by the run.
C1_UnsupportedFailsBeforeOutput ==
  /\ (\E n \in 1..Len(header) : C1_Unsupported(n)) =>
       /\ Before(pc)
       /\ bindings_rs.status = "stale" /\ glue_cc.status = "stale"
       /\ pc = "failed" =>
            failure \in {"ParseFailure", "MissingDisplayName", "UnsupportedType"}
  /\ failure = "UnsupportedType" =>
       /\ \E n \in 1..Len(header) : C1_Unsupported(n)
       /\ bindings_rs.status = "stale" /\ glue_cc.status = "stale"

\* A run that panicked on a pointer whose pointee is a class.
C1_Witness ==
  /\ pc = "failed" /\ failure = "UnsupportedType"
  /\ \E n \in 1..Len(header) :
       \/ header[n].ty = TPtrRecord
       \/ \E k \in 1..Len(header[n].args) : header[n].args[k].ty = TPtrRecord

\* The step is the FunctionDecl arm for the child, and it returns.
C2_Returns ==
  /\ InScope /\ get_kind(Child) = "FunctionDecl"
  /\ pc' = "walk"

\* C2: the FunctionDecl arm adds exactly one item, a Function item; for an
\* inline function the glue grows by exactly one forwarding definition,
\* which calls the function by its name with the arguments in declared
\* order, and the item's link symbol is that definition's proxy name; for
\* any other function the glue is unchanged and the link symbol is the
\* mangled name (less its first character where the platform strips it).
C2_InlineProxy ==
  [][ C2_Returns =>
        LET e == header[Child]
            its == stack'[Len(stack')].items
            item == its[Len(its)]
        IN  /\ Len(stack') = Len(stack)
            /\ Len(its) = Len(Top.items) + 1
            /\ SubSeq(its, 1, Len(Top.items)) = Top.items
            /\ item.tag = "Fn" /\ item.name = get_name(Child)
            /\ IF e.inline
                 THEN /\ Len(glue') = Len(glue) + 1
                      /\ SubSeq(glue', 1, Len(glue)) = glue
                      /\ LET def == glue'[Len(glue')]
                         IN  /\ def.name = get_name(Child)
                             /\ def.temp = item.symbol
                             /\ Len(def.arg_names) = Len(e.args)
                             /\ \A k \in 1..Len(e.args) :
                                  /\ def.arg_names[k] = e.args[k].name[1]
                                  /\ def.args[k] = <<e.args[k].ty.disp, e.args[k].name[1]>>
                 ELSE /\ glue' = glue
                      /\ item.symbol = StrippedName(get_mangled_name(Child)) ]_vars

\* An inline function of two parameters has been given its proxy.
C2_Witness ==
  \E it \in AllItems :
    /\ it.tag = "Fn" /\ Len(it.args) = 2
    /\ \E k \in 1..Len(glue) : glue[k].temp = it.symbol /\ glue[k].name = it.name

\* C3: the proxy names of the forwarding definitions in the glue are
\* pairwise distinct, whatever the identifier generator returns.
C3_ProxiesDistinct ==
  \A i, j \in 1..Len(glue) : i # j => glue[i].temp # glue[j].temp

\* The shape of a Vec<Item>: tag and name of each item, and the shape of
\* what a module holds.
RECURSIVE C4_Shape(_)
C4_Shape(its) ==
  [k \in 1..Len(its) |->
     [tag |-> its[k].tag, name |-> its[k].name,
      items |-> IF its[k].tag = "Mod" THEN C4_Shape(its[k].items) ELSE <<>>]]

\* The shape of the rendered tokens.
RECURSIVE C4_TokenShape(_)
C4_TokenShape(toks) ==
  [k \in 1..Len(toks) |->
     [tag |-> CASE toks[k].tag = "mod" -> "Mod"
                [] toks[k].tag = "extern_fn" -> "Fn"
                [] toks[k].tag = "struct" -> "Struct",
      name |-> toks[k].name,
      items |-> IF toks[k].tag = "mod" THEN C4_TokenShape(toks[k].body) ELSE <<>>]]

\* The shape the declarations in kids call for: one module per namespace,
\* holding what its own children call for, and one item per function or class.
RECURSIVE C4_Mirror(_)
C4_Mirror(kids) ==
  IF kids = <<>> THEN <<>>
  ELSE LET n == Head(kids)
           k == header[n].kind
       IN  (CASE k = "Namespace" ->
                   << [tag |-> "Mod", name |-> EntityNames[n],
                       items |-> C4_Mirror(get_children(n))] >>
              [] k = "FunctionDecl" ->
                   << [tag |-> "Fn", name |-> EntityNames[n], items |-> <<>>] >>
              [] k = "ClassDecl" ->
                   << [tag |-> "Struct", name |-> EntityNames[n], items |-> <<>>] >>
              [] OTHER -> <<>>)
           \o C4_Mirror(Tail(kids))

\* C4: the items process_entity returns for the translation unit, and the
\* tokens rendered from them, mirror the namespace nesting of the header:
\* one module per namespace inside the module of its enclosing namespace,
\* one item per function or class directly inside the module of its
\* namespace, in declaration order.
C4_NamespaceMirror ==
  /\ ~Before(pc) => C4_Shape(items) = C4_Mirror(get_children(0))
  /\ pc \notin {"start", "walk", "failed", "render"} =>
       C4_TokenShape(tokens) = C4_Mirror(get_children(0))

\* A::B { fn } has been processed and rendered.
C4_Witness ==
  /\ pc = "done"
  /\ Len(items) = 1 /\ items[1].tag = "Mod"
  /\ Len(items[1].items) = 1 /\ items[1].items[1].tag = "Mod"
  /\ Len(items[1].items[1].items) = 1 /\ items[1].items[1].items[1].tag = "Fn"

\* The rendered structs, those nested in modules included.
RECURSIVE C5_RenderedStructs(_)
C5_RenderedStructs(toks) ==
  UNION { CASE toks[k].tag = "struct" -> {toks[k]}
            [] toks[k].tag = "mod" -> C5_RenderedStructs(toks[k].body)
            [] OTHER -> {}
          : k \in 1..Len(toks) }

\* C5: the fields of a Struct item are the class's direct field children in
\* declaration order, each public exactly when its accessibility is public,
\* and the rendered struct lists the same fields in the same order with
\* `pub` on exactly the public ones.
C5_FieldOrder ==
  /\ \A s \in AllStructs :
       LET fs == ChildrenOfKind(Declared(s.name, "ClassDecl"), {"FieldDecl"})
       IN  /\ Len(s.fields) = Len(fs)
           /\ \A k \in 1..Len(fs) :
                /\ s.fields[k].name = EntityNames[fs[k]]
                /\ s.fields[k].public = header[fs[k]].public
  /\ \A r \in C5_RenderedStructs(tokens) :
       LET fs == ChildrenOfKind(Declared(r.name, "ClassDecl"), {"FieldDecl"})
       IN  /\ Len(r.fields) = Len(fs)
           /\ \A k \in 1..Len(fs) :
                IF header[fs[k]].public
                  THEN r.fields[k][1] = "pub" /\ r.fields[k][2] = EntityNames[fs[k]]
                  ELSE r.fields[k][1] = EntityNames[fs[k]]

\* A class with a private field, then a constructor or method, then a
\* public field has been processed and rendered.
C5_Witness ==
  /\ pc = "done"
  /\ \E s \in AllStructs :
       LET kids == get_children(Declared(s.name, "ClassDecl"))
       IN  /\ Len(kids) = 3 /\ Len(s.fields) = 2
           /\ header[kids[1]].kind = "FieldDecl" /\ ~header[kids[1]].public
           /\ header[kids[2]].kind \in {"Constructor", "Method"}
           /\ header[kids[3]].kind = "FieldDecl" /\ header[kids[3]].public

C7_UnnamedNeverFails == failure # "MissingDisplayName"

\* C8: an aborted run has written both output files or neither.
C8_AllOrNothing ==
  pc = "failed" => (bindings_rs.status = "written" <=> glue_cc.status = "written")

\* The entities below n in pre-order.
RECURSIVE C9_PreOrder(_)
C9_PreOrder(kids) ==
  IF kids = <<>> THEN <<>>
  ELSE <<Head(kids)>> \o C9_PreOrder(get_children(Head(kids))) \o C9_PreOrder(Tail(kids))

C9_IsPrefix(a, b) == Len(a) <= Len(b) /\ SubSeq(b, 1, Len(a)) = a

RECURSIVE C9_InlineNames(_)
C9_InlineNames(ns) ==
  IF ns = <<>> THEN <<>>
  ELSE (IF Head(ns) # 0 /\ header[Head(ns)].kind = "FunctionDecl" /\ header[Head(ns)].inline
          THEN <<EntityNames[Head(ns)]>> ELSE <<>>)
       \o C9_InlineNames(Tail(ns))

\* Twice the entities not met yet, plus the activations open.
C9_Measure == 2 * (Len(header) + 1 - Len(visited)) + Len(stack)

\* C9: the glue is only appended to, and only by the FunctionDecl arm on an
\* inline function; the walk meets the entities in pre-order, none twice;
\* the forwarding definitions stand in the glue in the order their inline
\* functions were met; and the walk ends: every step of it lowers a measure
\* that is never negative.
C9_Traversal ==
  /\ [][ /\ C9_IsPrefix(glue, glue')
         /\ glue' # glue =>
              /\ InScope /\ get_kind(Child) = "FunctionDecl" /\ header[Child].inline
              /\ Len(glue') = Len(glue) + 1
         /\ pc = "walk" => C9_Measure' < C9_Measure ]_vars
  /\ [](/\ C9_IsPrefix(visited, <<0>> \o C9_PreOrder(get_children(0)))
        /\ \A i, j \in 1..Len(visited) : i # j => visited[i] # visited[j]
        /\ pc # "failed" =>
             [k \in 1..Len(glue) |-> glue[k].name] = C9_InlineNames(visited)
        /\ C9_Measure >= 0)

\* The walk has ended after two inline functions, one of them in a namespace.
C9_Witness ==
  /\ pc = "render" /\ Len(glue) = 2
  /\ \E n \in 1..Len(header) : header[n].kind = "Namespace"
  /\ \E n \in 1..Len(header) :
       header[n].kind = "FunctionDecl" /\ header[n].inline /\ header[n].parent # 0

\* C10: a Struct item holds no constructor when its class declares none, and
\* otherwise exactly one, built from the last declared constructor: its
\* symbol, its parameters and its comments.
C10_LastConstructor ==
  \A s \in AllStructs :
    LET cs == ChildrenOfKind(Declared(s.name, "ClassDecl"), {"Constructor"})
        last == cs[Len(cs)]
    IN  IF cs = <<>> THEN s.constructor = <<>>
        ELSE /\ Len(s.constructor) = 1
             /\ s.constructor[1].symbol = StrippedName(get_mangled_name(last))
             /\ s.constructor[1].comments = Comments(last)
             /\ Len(s.constructor[1].args) = Len(header[last].args)
             /\ \A k \in 1..Len(header[last].args) :
                  header[last].args[k].name # <<>> =>
                    s.constructor[1].args[k].name = header[last].args[k].name

\* A class with two constructors has been processed.
C10_Witness ==
  /\ pc = "done"
  /\ \E s \in AllStructs :
       Len(ChildrenOfKind(Declared(s.name, "ClassDecl"), {"Constructor"})) >= 2

====
